---- MODULE Spec2Model ----
(***************************************************************************)
(* SecuPatch: the compliance evaluation of project.py.                     *)
(*                                                                         *)
(* A run of main() is modelled from the moment both files are uploaded and *)
(* parsed: the manifest is a dict (here the sequence of its items in       *)
(* insertion order, keys distinct), the parsed log is a list of entries    *)
(* {server, patch, timestamp}, a timestamp being a calendar date <<y,m,d>> *)
(* (parse_log_file reads "%Y-%m-%d", so every timestamp is at midnight).   *)
(***************************************************************************)
EXTENDS Integers, Sequences, FiniteSets

VARIABLES patch_manifest, logs, pc, compliance, score_df, breakdown_df,
          summary, pie_summary, error

vars == <<patch_manifest, logs, pc, compliance, score_df, breakdown_df,
          summary, pie_summary, error>>

-----------------------------------------------------------------------------
(* Bounds of the input space *)

MaxLogs == 3

Servers == {"srv01", "srv02"}
Patches == {"patch1", "patch2"}

\* Dates around the recency thresholds: day offsets -1, 90, 91, 121, 150, 151
AllDates == { <<2023, 12, 31>>, <<2024, 3, 31>>, <<2024, 4, 1>>, <<2024, 5, 1>>,
              <<2024, 5, 30>>, <<2024, 5, 31>> }
\* The date used when several servers are evaluated together
FleetDates == { <<2024, 3, 31>> }

BoundedSeq(S, n) == UNION { [1..k -> S] : k \in 0..n }

LogEntries(servers, dates) ==
    [server : servers, patch : Patches, timestamp : dates]

\* A dict's items: keys are unique
Manifests(servers) ==
    { m \in BoundedSeq([server : servers, required_patch : Patches], Cardinality(servers)) :
        \A i, j \in 1..Len(m) : i # j => m[i].server # m[j].server }

-----------------------------------------------------------------------------
(* Python dict with insertion order: a sequence of [key, value] *)

DictKeys(d) == { d[i].key : i \in 1..Len(d) }

DictGet(d, k) == d[CHOOSE i \in 1..Len(d) : d[i].key = k].value

\* d[k] = v: an existing key keeps its position, a new key goes last
DictSet(d, k, v) ==
    IF k \in DictKeys(d)
    THEN [i \in 1..Len(d) |-> IF d[i].key = k THEN [key |-> k, value |-> v] ELSE d[i]]
    ELSE Append(d, [key |-> k, value |-> v])

-----------------------------------------------------------------------------
(* datetime: comparison and subtraction *)

IsLeap(y) == y % 4 = 0 /\ (y % 100 # 0 \/ y % 400 = 0)

DaysInMonth(y, m) ==
    IF m = 2 THEN (IF IsLeap(y) THEN 29 ELSE 28)
    ELSE IF m \in {4, 6, 9, 11} THEN 30 ELSE 31

RECURSIVE DaysBeforeMonth(_, _)
DaysBeforeMonth(y, m) ==
    IF m <= 1 THEN 0 ELSE DaysBeforeMonth(y, m - 1) + DaysInMonth(y, m - 1)

DaysBeforeYear(y) ==
    (y - 1) * 365 + ((y - 1) \div 4) - ((y - 1) \div 100) + ((y - 1) \div 400)

\* proleptic Gregorian ordinal of a date
ToOrdinal(t) == DaysBeforeYear(t[1]) + DaysBeforeMonth(t[1], t[2]) + t[3]

\* (latest_date - datetime(2024, 1, 1)).days
DaysSince2024(t) == ToOrdinal(t) - ToOrdinal(<<2024, 1, 1>>)

\* datetime.__lt__
DateLess(a, b) ==
    \/ a[1] < b[1]
    \/ a[1] = b[1] /\ a[2] < b[2]
    \/ a[1] = b[1] /\ a[2] = b[2] /\ a[3] < b[3]

\* max() over a non-empty sequence of timestamps: the first maximal item
RECURSIVE MaxFrom(_, _, _)
MaxFrom(ts, i, best) ==
    IF i > Len(ts) THEN best
    ELSE MaxFrom(ts, i + 1, IF DateLess(best, ts[i]) THEN ts[i] ELSE best)

Timestamps(matching_logs) ==
    [i \in 1..Len(matching_logs) |-> matching_logs[i].timestamp]

-----------------------------------------------------------------------------
(* evaluate_compliance *)

NA == <<"N/A">>

MatchingLogs(lg, server) == SelectSeq(lg, LAMBDA log : log.server = server)

HasRequiredPatch(matching_logs, required_patch) ==
    \E i \in 1..Len(matching_logs) : matching_logs[i].patch = required_patch

\* variant: the last entry of the list taken for the latest one
LatestDate_LastEntry(matching_logs) ==
    matching_logs[Len(matching_logs)].timestamp

\* latest_date of the recency bonus (matching_logs is non-empty there)
LatestDate(matching_logs) ==
    MaxFrom(Timestamps(matching_logs), 2, matching_logs[1].timestamp)

\* variant: the upper threshold taken inclusive
RecencyBonus_AtLeast150(days_since_2024) ==
    IF days_since_2024 >= 150 THEN 25
    ELSE IF days_since_2024 > 90 THEN 15
    ELSE 5

RecencyBonus(days_since_2024) ==
    IF days_since_2024 > 150 THEN 25
    ELSE IF days_since_2024 > 90 THEN 15
    ELSE 5

\* variant: a larger top bonus, which the cap would have to cut
ActivityBonus_Twenty(patch_count) ==
    IF patch_count >= 3 THEN 20
    ELSE IF patch_count >= 2 THEN 10
    ELSE 5

ActivityBonus(patch_count) ==
    IF patch_count >= 3 THEN 15
    ELSE IF patch_count >= 2 THEN 10
    ELSE 5

\* variant: partial credit that reaches the Partially Compliant floor
PartialCredit_Forty(patch_count) ==
    IF patch_count >= 3 THEN 40
    ELSE IF patch_count >= 2 THEN 20
    ELSE 10

PartialCredit(patch_count) ==
    IF patch_count >= 3 THEN 30
    ELSE IF patch_count >= 2 THEN 20
    ELSE 10

\* the score before the cap
RawScore(required_patch, matching_logs) ==
    IF HasRequiredPatch(matching_logs, required_patch)
    THEN 60
         + (IF Len(matching_logs) > 0
            THEN RecencyBonus(DaysSince2024(LatestDate(matching_logs)))
            ELSE 0)
         + ActivityBonus(Len(matching_logs))
    ELSE IF Len(matching_logs) > 0
         THEN PartialCredit(Len(matching_logs))
         ELSE 0

\* score = min(score, 100)
CapScore(score) == IF score < 100 THEN score ELSE 100

\* variant: the Compliant threshold taken exclusive
Classify_Above80(score) ==
    IF score > 80 THEN "Compliant"
    ELSE IF score >= 40 THEN "Partially Compliant"
    ELSE "Non-Compliant"

Classify(score) ==
    IF score >= 80 THEN "Compliant"
    ELSE IF score >= 40 THEN "Partially Compliant"
    ELSE "Non-Compliant"

\* variant: the last entry of the list taken for the latest one
LatestPatchDate_LastEntry(matching_logs) ==
    IF Len(matching_logs) = 0 THEN NA
    ELSE matching_logs[Len(matching_logs)].timestamp

\* max((log["timestamp"] for log in matching_logs), default="N/A")
LatestPatchDate(matching_logs) ==
    IF Len(matching_logs) = 0 THEN NA
    ELSE MaxFrom(Timestamps(matching_logs), 2, matching_logs[1].timestamp)

\* the body of the loop over the manifest's items, from item i on
RECURSIVE EvalFrom(_, _, _, _, _, _)
EvalFrom(items, lg, i, comp, scores, breakdown) ==
    IF i > Len(items)
    THEN [compliance |-> comp, scores |-> scores, breakdown |-> breakdown]
    ELSE LET server == items[i].server
             required_patch == items[i].required_patch
             matching_logs == MatchingLogs(lg, server)
             score == CapScore(RawScore(required_patch, matching_logs))
             comp2 == DictSet(comp, server, Classify(score))
             latest_patch_date == LatestPatchDate(matching_logs)
         IN  EvalFrom(items, lg, i + 1, comp2,
                      Append(scores, [server |-> server, score |-> score]),
                      Append(breakdown,
                             [server |-> server,
                              required_patch |-> required_patch,
                              status |-> DictGet(comp2, server),
                              latest_patch_date |->
                                  IF latest_patch_date # NA THEN latest_patch_date ELSE NA]))

\* pd.DataFrame(records): a list of dicts gives their keys as columns, an
\* empty list gives a frame without columns
DataFrame(records, columns) ==
    [columns |-> IF Len(records) = 0 THEN {} ELSE columns, rows |-> records]

\* variant: servers without log entries are skipped
evaluate_compliance_SkipUnlogged(manifest, lg) ==
    LET logged == SelectSeq(manifest, LAMBDA it : Len(MatchingLogs(lg, it.server)) > 0)
        r == EvalFrom(logged, lg, 1, <<>>, <<>>, <<>>)
    IN  [compliance |-> r.compliance,
         score_df |-> DataFrame(r.scores, {"server", "score"}),
         breakdown_df |-> DataFrame(r.breakdown,
                            {"server", "required_patch", "status", "latest_patch_date"})]

evaluate_compliance(manifest, lg) ==
    LET r == EvalFrom(manifest, lg, 1, <<>>, <<>>, <<>>)
    IN  [compliance |-> r.compliance,
         score_df |-> DataFrame(r.scores, {"server", "score"}),
         breakdown_df |-> DataFrame(r.breakdown,
                            {"server", "required_patch", "status", "latest_patch_date"})]

-----------------------------------------------------------------------------
(* generate_summary_text *)

\* [s for s, status in compliance.items() if status == tier]
ServersWithStatus(comp, tier) ==
    LET sel == SelectSeq(comp, LAMBDA kv : kv.value = tier)
    IN  [i \in 1..Len(sel) |-> sel[i].key]

SummaryLine(label, servers) ==
    [label |-> label, count |-> Len(servers), servers |-> servers]

\* variant: the last list takes every server that is not Compliant
generate_summary_text_NotCompliant(comp) ==
    LET compliant == ServersWithStatus(comp, "Compliant")
        partially_compliant == ServersWithStatus(comp, "Partially Compliant")
        non_compliant == ServersWithStatus(comp, "Partially Compliant")
                         \o ServersWithStatus(comp, "Non-Compliant")
    IN  [title |-> "--- COMPLIANCE SUMMARY ---",
         lines |-> << SummaryLine("Compliant Servers", compliant),
                      SummaryLine("Partially Compliant Servers", partially_compliant),
                      SummaryLine("Non-Compliant Servers", non_compliant) >>]

generate_summary_text(comp) ==
    LET compliant == ServersWithStatus(comp, "Compliant")
        partially_compliant == ServersWithStatus(comp, "Partially Compliant")
        non_compliant == ServersWithStatus(comp, "Non-Compliant")
    IN  [title |-> "--- COMPLIANCE SUMMARY ---",
         lines |-> << SummaryLine("Compliant Servers", compliant),
                      SummaryLine("Partially Compliant Servers", partially_compliant),
                      SummaryLine("Non-Compliant Servers", non_compliant) >>]

-----------------------------------------------------------------------------
(* main: the pie chart *)

PieStatus(x) == IF x = 100 THEN "Compliant" ELSE "Non-Compliant"

\* pie_df["status"].value_counts().reset_index(): one row per status present
PieSummary(df) ==
    LET status == [i \in 1..Len(df.rows) |-> PieStatus(df.rows[i].score)]
        present == { status[i] : i \in 1..Len(status) }
    IN  { [status |-> s, count |-> Cardinality({ i \in 1..Len(status) : status[i] = s })] :
            s \in present }

-----------------------------------------------------------------------------
(* main, once both files are uploaded *)

NoFrame == [columns |-> {}, rows |-> <<>>]
NoSummary == [title |-> "", lines |-> <<>>]

InitOutputs ==
    /\ pc = "uploaded"
    /\ compliance = <<>>
    /\ score_df = NoFrame
    /\ breakdown_df = NoFrame
    /\ summary = NoSummary
    /\ pie_summary = {}
    /\ error = FALSE

\* any manifest over the servers, logs of one date
InitFleet ==
    /\ patch_manifest \in Manifests(Servers)
    /\ logs \in BoundedSeq(LogEntries(Servers, FleetDates), MaxLogs)

\* one server, every date
InitHistory ==
    /\ patch_manifest = << [server |-> "srv01", required_patch |-> "patch1"] >>
    /\ logs \in BoundedSeq(LogEntries({"srv01"}, AllDates), MaxLogs)

Init == (InitFleet \/ InitHistory) /\ InitOutputs

\* compliance, score_df, breakdown_df = evaluate_compliance(patch_manifest, logs)
Evaluate ==
    /\ pc = "uploaded"
    /\ LET r == evaluate_compliance(patch_manifest, logs)
       IN  /\ compliance' = r.compliance
           /\ score_df' = r.score_df
           /\ breakdown_df' = r.breakdown_df
    /\ pc' = "evaluated"
    /\ UNCHANGED <<patch_manifest, logs, summary, pie_summary, error>>

\* summary = generate_summary_text(compliance); st.text(summary)
Summarise ==
    /\ pc = "evaluated"
    /\ summary' = generate_summary_text(compliance)
    /\ pc' = "summarised"
    /\ UNCHANGED <<patch_manifest, logs, compliance, score_df, breakdown_df,
                   pie_summary, error>>

\* st.bar_chart(score_df.set_index("server"))
BarChart ==
    /\ pc = "summarised"
    /\ "server" \in score_df.columns
    /\ pc' = "charted"
    /\ UNCHANGED <<patch_manifest, logs, compliance, score_df, breakdown_df,
                   summary, pie_summary, error>>

\* set_index raises KeyError on a frame without the column: except -> st.error
BarChartFails ==
    /\ pc = "summarised"
    /\ "server" \notin score_df.columns
    /\ error' = TRUE
    /\ pc' = "done"
    /\ UNCHANGED <<patch_manifest, logs, compliance, score_df, breakdown_df,
                   summary, pie_summary>>

\* the pie chart; the drill-down and the export that follow only read breakdown_df
PieChart ==
    /\ pc = "charted"
    /\ pie_summary' = PieSummary(score_df)
    /\ pc' = "done"
    /\ UNCHANGED <<patch_manifest, logs, compliance, score_df, breakdown_df,
                   summary, error>>

Next == Evaluate \/ Summarise \/ BarChart \/ BarChartFails \/ PieChart

Spec == Init /\ [][Next]_vars

-----------------------------------------------------------------------------
(* What the properties below read off a state *)

Evaluated == pc # "uploaded"
Summarised == pc \in {"summarised", "charted", "done"}

ManifestIdx == 1..Len(patch_manifest)
ServerAt(i) == patch_manifest[i].server
RequiredAt(i) == patch_manifest[i].required_patch
ScoreAt(i) == score_df.rows[i].score

\* the positions of a server's entries in the log list
EntriesOf(s) == { j \in 1..Len(logs) : logs[j].server = s }

RequiredPresent(i) ==
    \E j \in EntriesOf(ServerAt(i)) : logs[j].patch = RequiredAt(i)

\* the largest day offset from 2024-01-01 among a server's entries
LatestOffset(s) ==
    CHOOSE d \in { DaysSince2024(logs[j].timestamp) : j \in EntriesOf(s) } :
        \A j \in EntriesOf(s) : DaysSince2024(logs[j].timestamp) <= d

GraduatedReference(i) ==
    LET n == Cardinality(EntriesOf(ServerAt(i)))
        days == LatestOffset(ServerAt(i))
    IN  IF n = 0 THEN 0
        ELSE IF ~RequiredPresent(i)
             THEN (IF n = 1 THEN 10 ELSE IF n = 2 THEN 20 ELSE 30)
             ELSE 60
                  + (IF days > 150 THEN 25 ELSE IF days > 90 /\ days <= 150 THEN 15 ELSE 5)
                  + (IF n >= 3 THEN 15 ELSE IF n = 2 THEN 10 ELSE 5)

\* a single entry, the required patch, dated 2024-05-01
SingleEntryOnMayFirst(i) ==
    \E j \in EntriesOf(ServerAt(i)) :
        /\ EntriesOf(ServerAt(i)) = {j}
        /\ logs[j].patch = RequiredAt(i)
        /\ logs[j].timestamp = <<2024, 5, 1>>

-----------------------------------------------------------------------------
\* C1: the score recorded for every manifest server equals the graduated
\* reference: 0 without entries; 10, 20, 30 for 1, 2, 3-or-more entries none of
\* which is the required patch; otherwise 60 plus the recency bonus of the
\* latest entry (25 beyond 150 days after 2024-01-01, 15 beyond 90, else 5) plus
\* the activity bonus (15, 10, 5 for 3-or-more, 2, 1 entries). One required
\* entry dated 2024-05-01, 121 days after the epoch, scores 80.
C1_ScoreIsGraduatedReference ==
    Evaluated =>
        /\ Len(score_df.rows) = Len(patch_manifest)
        /\ \A i \in ManifestIdx :
            /\ ScoreAt(i) = GraduatedReference(i)
            /\ SingleEntryOnMayFirst(i) =>
                   /\ LatestOffset(ServerAt(i)) = 121
                   /\ ScoreAt(i) = 80

C1_Witness ==
    /\ Evaluated
    /\ \E i \in ManifestIdx : SingleEntryOnMayFirst(i) /\ ScoreAt(i) = 80

\* the tier of a score, as the thresholds state it
TierOf(score) ==
    CHOOSE t \in {"Compliant", "Partially Compliant", "Non-Compliant"} :
        /\ t = "Compliant" <=> score >= 80
        /\ t = "Partially Compliant" <=> (40 <= score /\ score < 80)
        /\ t = "Non-Compliant" <=> score < 40

C3_OutputsFollowManifest ==
    Evaluated =>
        /\ Len(score_df.rows) = Len(patch_manifest)
        /\ Len(breakdown_df.rows) = Len(patch_manifest)
        /\ Len(compliance) = Len(patch_manifest)
        /\ \A i \in ManifestIdx :
            /\ score_df.rows[i].server = ServerAt(i)
            /\ breakdown_df.rows[i].server = ServerAt(i)
            /\ breakdown_df.rows[i].required_patch = RequiredAt(i)
        /\ DictKeys(compliance) = { ServerAt(i) : i \in ManifestIdx }
        /\ \A j \in 1..Len(logs) :
            logs[j].server \notin { ServerAt(i) : i \in ManifestIdx } =>
                /\ logs[j].server \notin DictKeys(compliance)
                /\ \A i \in 1..Len(score_df.rows) : score_df.rows[i].server # logs[j].server
                /\ \A i \in 1..Len(breakdown_df.rows) :
                       breakdown_df.rows[i].server # logs[j].server

\* the manifest's only server has no log entry and the logs name another server
C3_Witness ==
    /\ Evaluated
    /\ Len(patch_manifest) = 1
    /\ EntriesOf(ServerAt(1)) = {}
    /\ Len(logs) > 0
    /\ Len(score_df.rows) = 1

\* C4: every recorded score is an integer in 0..100 and the cap min(score, 100)
\* changes no computed value.
C4_ScoreInRangeCapIdle ==
    Evaluated =>
        \A i \in ManifestIdx :
            /\ ScoreAt(i) \in 0..100
            /\ RawScore(RequiredAt(i), MatchingLogs(logs, ServerAt(i))) = ScoreAt(i)

C4_Witness ==
    /\ Evaluated
    /\ \E i \in ManifestIdx : ScoreAt(i) = 100

\* C5: a manifest server is Non-Compliant if and only if its required patch is
\* absent from its log entries, however many entries it has.
C5_NonCompliantIffRequiredAbsent ==
    Evaluated =>
        \A i \in ManifestIdx :
            DictGet(compliance, ServerAt(i)) = "Non-Compliant" <=> ~RequiredPresent(i)

C5_Witness ==
    /\ Evaluated
    /\ \E i \in ManifestIdx :
        /\ Cardinality(EntriesOf(ServerAt(i))) >= 3
        /\ ~RequiredPresent(i)
        /\ ScoreAt(i) = 30
        /\ DictGet(compliance, ServerAt(i)) = "Non-Compliant"

\* C6: latest_patch_date is the N/A sentinel iff the server has no log entry;
\* otherwise it is the maximum timestamp over all the server's entries,
\* required patch or not, whatever the order of the log list.
C6_LatestPatchDateIsMax ==
    Evaluated =>
        \A i \in ManifestIdx :
            LET d == breakdown_df.rows[i].latest_patch_date
                E == EntriesOf(ServerAt(i))
            IN  /\ d = NA <=> E = {}
                /\ E # {} =>
                    /\ \E j \in E : logs[j].timestamp = d
                    /\ \A j \in E : ~DateLess(d, logs[j].timestamp)

\* the latest entry is not the required patch and is not last in the list
C6_Witness ==
    /\ Evaluated
    /\ \E i \in ManifestIdx :
        \E j, k \in EntriesOf(ServerAt(i)) :
            /\ j < k
            /\ DateLess(logs[k].timestamp, logs[j].timestamp)
            /\ logs[j].patch # RequiredAt(i)
            /\ logs[k].patch = RequiredAt(i)
            /\ breakdown_df.rows[i].latest_patch_date = logs[j].timestamp

\* C7: (binary policy, the docstring's status map) a server's score is 100 if
\* its required patch is among its log entries and 0 otherwise, and every
\* status is Compliant or Non-Compliant.
C7_BinaryPolicy ==
    Evaluated =>
        \A i \in ManifestIdx :
            /\ ScoreAt(i) = (IF RequiredPresent(i) THEN 100 ELSE 0)
            /\ DictGet(compliance, ServerAt(i)) \in {"Compliant", "Non-Compliant"}

\* the log list with one more entry, first or last
WithOneMore(e) == { <<e>> \o logs, Append(logs, e) }

\* C8: for a server whose entries include its required patch, one more entry
\* for that server (any patch, any date, anywhere in the list) never lowers
\* its score.
C8_ScoreMonotoneInEntries ==
    pc = "evaluated" =>
        \A i \in ManifestIdx :
            RequiredPresent(i) =>
                \A e \in LogEntries({ServerAt(i)}, AllDates) :
                    \A more \in WithOneMore(e) :
                        evaluate_compliance(patch_manifest, more).score_df.rows[i].score
                            >= ScoreAt(i)

\* an added entry that raises the score of a server holding its required patch
C8_Witness ==
    /\ pc = "evaluated"
    /\ \E i \in ManifestIdx :
        /\ RequiredPresent(i)
        /\ Cardinality(EntriesOf(ServerAt(i))) = 2
        /\ \E e \in LogEntries({ServerAt(i)}, AllDates) :
            evaluate_compliance(patch_manifest, Append(logs, e)).score_df.rows[i].score
                > ScoreAt(i)

Tiers == {"Compliant", "Partially Compliant", "Non-Compliant"}

\* every status map over the servers: distinct keys in any order, any tiers
StatusMaps ==
    { m \in BoundedSeq([key : Servers, value : Tiers], Cardinality(Servers)) :
        \A i, j \in 1..Len(m) : i # j => m[i].key # m[j].key }

\* the number of times server s is listed in the text
Listed(text, s) ==
    Cardinality({ <<l, n>> \in (1..Len(text.lines)) \X (1..Cardinality(Servers)) :
                    n <= Len(text.lines[l].servers) /\ text.lines[l].servers[n] = s })

SummaryRenders(m, text) ==
    /\ Len(text.lines) = 3
    /\ text.lines[1].label = "Compliant Servers"
    /\ text.lines[2].label = "Partially Compliant Servers"
    /\ text.lines[3].label = "Non-Compliant Servers"
    /\ \A l \in 1..3 : text.lines[l].count = Len(text.lines[l].servers)
    /\ text.lines[1].count + text.lines[2].count + text.lines[3].count = Len(m)
    /\ \A s \in DictKeys(m) : Listed(text, s) = 1
    /\ \A s \in Servers \ DictKeys(m) : Listed(text, s) = 0
    /\ \A l \in 1..3 : \A n \in 1..Len(text.lines[l].servers) :
           DictGet(m, text.lines[l].servers[n]) =
               (IF l = 1 THEN "Compliant"
                ELSE IF l = 2 THEN "Partially Compliant" ELSE "Non-Compliant")

\* C9: generate_summary_text renders the tiers in the order Compliant,
\* Partially Compliant, Non-Compliant, lists every server of the status map
\* under exactly one tier (its own), and the three counts sum to the number of
\* entries of the map; for the map evaluate_compliance returned and for every
\* status map over the servers.
C9_SummaryCountsSum ==
    /\ Summarised => SummaryRenders(compliance, summary)
    /\ pc = "summarised" =>
           \A m \in StatusMaps : SummaryRenders(m, generate_summary_text(m))

C9_Witness ==
    /\ Summarised
    /\ Len(compliance) = 2
    /\ summary.lines[2].count = 1
    /\ summary.lines[3].count = 1

PieCount(status) ==
    IF \E r \in pie_summary : r.status = status
    THEN (CHOOSE r \in pie_summary : r.status = status).count
    ELSE 0

\* C10: the pie chart's number of Compliant servers equals the number of
\* servers whose status in the compliance map is Compliant.
C10_PieAgreesWithStatus ==
    (pc = "done" /\ ~error) =>
        PieCount("Compliant") =
            Cardinality({ i \in 1..Len(compliance) : compliance[i].value = "Compliant" })

====
